---- MODULE Spec2Model ----
(***************************************************************************)
(* Model of scripts/generate-diagrams.py: four diagram builders, each a    *)
(* try/except around icon imports and a `with Diagram(...)` scene, and the *)
(* orchestrator main() that creates docs/diagrams, changes into it, calls  *)
(* the builders, prints a summary and returns the overall success flag.    *)
(*                                                                         *)
(* The file system is a set of directories and a set of regular files; a   *)
(* path is a sequence of names counted from the invocation directory <<>>. *)
(***************************************************************************)
EXTENDS Naturals, Sequences, FiniteSets, TLC

\* How many times the script is run from the same invocation directory.
MaxRuns == 2

None == "none"

----------------------------------------------------------------------------
\* Paths and the file system

\* Path("docs/diagrams"), a relative path (main, line 280).
DiagramsDir == <<"docs", "diagrams">>

Front(p) == SubSeq(p, 1, Len(p) - 1)

Last(p) == p[Len(p)]

\* Path.absolute() / the kernel's resolution of a relative path: the working
\* directory followed by the relative path, with no normalisation.
Absolute(c, rel) == c \o rel

\* The name of a regular file: the stem, and "." and the extension if any.
FileName(f) == IF f.ext = "" THEN f.stem ELSE f.stem \o "." \o f.ext

FilePath(f) == f.dir \o <<FileName(f)>>

IsFile(fl, p) == \E f \in fl : FilePath(f) = p

\* os.mkdir(p): "ok", or the errno it fails with.
OsMkdir(ds, fl, p) ==
    IF p \in ds \/ IsFile(fl, p) THEN "EEXIST"
    ELSE IF Len(p) = 0 THEN "EEXIST"
    ELSE IF IsFile(fl, Front(p)) THEN "ENOTDIR"
    ELSE IF Front(p) \notin ds THEN "ENOENT"
    ELSE "ok"

\* Path.mkdir(parents, exist_ok): try os.mkdir; on ENOENT create the parent
\* (parents=True, exist_ok=True) and retry without parents; on any other
\* error succeed only if exist_ok and the path is a directory.
RECURSIVE PathMkdir(_, _, _, _, _)
PathMkdir(ds, fl, p, parents, exist_ok) ==
    LET e == OsMkdir(ds, fl, p) IN
    IF e = "ok" THEN [ok |-> TRUE, dirs |-> ds \cup {p}, err |-> None]
    ELSE IF e = "ENOENT" THEN
        IF ~parents \/ Len(p) = 0 THEN [ok |-> FALSE, dirs |-> ds, err |-> e]
        ELSE LET up == PathMkdir(ds, fl, Front(p), TRUE, TRUE) IN
             IF ~up.ok THEN up
             ELSE PathMkdir(up.dirs, fl, p, FALSE, exist_ok)
    ELSE IF exist_ok /\ p \in ds THEN [ok |-> TRUE, dirs |-> ds, err |-> None]
    ELSE [ok |-> FALSE, dirs |-> ds, err |-> e]

\* The arguments main passes to mkdir (line 281).
MkdirNoParents == FALSE

MkdirParents == TRUE

MkdirNoExistOk == FALSE

MkdirExistOk == TRUE

\* The directory os.chdir(diagrams_dir) enters, from working directory c.
ChdirStay(c) == c

ChdirTarget(c) == Absolute(c, DiagramsDir)

\* diagrams_dir.glob("*.png") evaluated in working directory c: the names of
\* the PNG files directly inside the directory the relative path denotes.
GlobPng(fl, c) ==
    {FileName(f) : f \in {g \in fl : g.dir = Absolute(c, DiagramsDir) /\ g.ext = "png"}}

----------------------------------------------------------------------------
\* Diagram titles and the output file name the renderer derives from them

Builders == 1 .. 4

\* The order in which main calls the builders (lines 288-291).
BuilderOrder == <<1, 2, 3, 4>>

\* The names main pairs with the results (lines 288-291).
ResultName(b) ==
    CASE b = 1 -> "Current Hobby Architecture"
      [] b = 2 -> "Consolidated Architecture"
      [] b = 3 -> "Future Scaling Architecture"
      [] b = 4 -> "Corrected Neon Branching"

\* What each builder calls its diagram in its failure line (lines 68..272).
FailureLabel(b) ==
    CASE b = 1 -> "current hobby architecture"
      [] b = 2 -> "consolidated architecture"
      [] b = 3 -> "future scaling architecture"
      [] b = 4 -> "corrected Neon branching"

TitleHobby ==
    <<"C", "u", "r", "r", "e", "n", "t", " ", "H", "o", "b", "b", "y", " ",
      "D", "e", "p", "l", "o", "y", "m", "e", "n", "t", " ", "A", "r", "c",
      "h", "i", "t", "e", "c", "t", "u", "r", "e">>

TitleConsolidated ==
    <<"C", "o", "n", "s", "o", "l", "i", "d", "a", "t", "e", "d", " ", "E",
      "C", "S", " ", "+", " ", "E", "x", "t", "e", "r", "n", "a", "l", " ",
      "S", "e", "r", "v", "i", "c", "e", "s", " ", "A", "r", "c", "h", "i",
      "t", "e", "c", "t", "u", "r", "e">>

TitleFuture ==
    <<"F", "u", "t", "u", "r", "e", " ", "S", "c", "a", "l", "i", "n", "g",
      " ", "A", "r", "c", "h", "i", "t", "e", "c", "t", "u", "r", "e">>

TitleNeon ==
    <<"C", "o", "r", "r", "e", "c", "t", "e", "d", " ", "N", "e", "o", "n",
      " ", "D", "a", "t", "a", "b", "a", "s", "e", " ", "B", "r", "a", "n",
      "c", "h", "i", "n", "g", " ", "S", "t", "r", "a", "t", "e", "g", "y">>

\* A variant in which the fourth diagram reuses the first diagram's title.
TitleColliding(b) ==
    CASE b = 1 -> TitleHobby
      [] b = 2 -> TitleConsolidated
      [] b = 3 -> TitleFuture
      [] b = 4 -> TitleHobby

\* The title each builder gives Diagram(...) (lines 26, 84, 148, 220).
Title(b) ==
    CASE b = 1 -> TitleHobby
      [] b = 2 -> TitleConsolidated
      [] b = 3 -> TitleFuture
      [] b = 4 -> TitleNeon

UpperChars ==
    <<"A", "B", "C", "D", "E", "F", "G", "H", "I", "J", "K", "L", "M",
      "N", "O", "P", "Q", "R", "S", "T", "U", "V", "W", "X", "Y", "Z">>

LowerChars ==
    <<"a", "b", "c", "d", "e", "f", "g", "h", "i", "j", "k", "l", "m",
      "n", "o", "p", "q", "r", "s", "t", "u", "v", "w", "x", "y", "z">>

\* str.lower() on one character.
LowerChar(c) ==
    IF \E i \in 1 .. 26 : UpperChars[i] = c
    THEN LowerChars[CHOOSE i \in 1 .. 26 : UpperChars[i] = c]
    ELSE c

\* str.split(): the maximal runs of non-blank characters, in order.
RECURSIVE SplitFrom(_, _, _, _)
SplitFrom(cs, i, cur, acc) ==
    IF i > Len(cs) THEN (IF cur = "" THEN acc ELSE Append(acc, cur))
    ELSE IF cs[i] = " "
         THEN SplitFrom(cs, i + 1, "", IF cur = "" THEN acc ELSE Append(acc, cur))
         ELSE SplitFrom(cs, i + 1, cur \o LowerChar(cs[i]), acc)

\* "_".join(words)
RECURSIVE JoinFrom(_, _)
JoinFrom(ws, i) ==
    IF i > Len(ws) THEN ""
    ELSE IF i = Len(ws) THEN ws[i]
    ELSE ws[i] \o "_" \o JoinFrom(ws, i + 1)

\* The renderer's file stem for a diagram title: the lowercased words of the
\* title joined by "_".
Slug(cs) == JoinFrom(SplitFrom(cs, 1, "", <<>>), 1)

\* The file a builder's diagram is rendered to, in working directory c.
OutFile(b, c) == [dir |-> c, stem |-> Slug(Title(b)), ext |-> "png"]

----------------------------------------------------------------------------
\* The import statements and the scene statements of each builder

Imp(m, ns) == [module |-> m, names |-> ns]

\* var = Icon("...") inside the named cluster ("" for the diagram itself).
NodeStmt(v, i, c) ==
    [op |-> "node", var |-> v, icon |-> i, cluster |-> c, src |-> None, dst |-> None]

\* src >> dst or src >> Edge(...) >> dst: an edge from src to dst.
EdgeStmt(s, d) ==
    [op |-> "edge", var |-> None, icon |-> None, cluster |-> None, src |-> s, dst |-> d]

\* Edge(...) >> dst: an edge expression with no node on its left.
OpenEdgeStmt(d) == EdgeStmt(None, d)

\* lines 18-24
ImportsHobby ==
    <<Imp("diagrams", {"Diagram", "Cluster", "Edge"}),
      Imp("diagrams.aws.compute", {"ECS", "EC2"}),
      Imp("diagrams.aws.network", {"ELB", "VPC", "InternetGateway", "NATGateway"}),
      Imp("diagrams.aws.database", {"RDS", "ElastiCache"}),
      Imp("diagrams.aws.security", {"IAM", "Cognito"}),
      Imp("diagrams.aws.management", {"ParameterStore"}),
      Imp("diagrams.aws.general", {"Users"})>>

\* lines 74-82
ImportsConsolidated ==
    <<Imp("diagrams", {"Diagram", "Cluster", "Edge"}),
      Imp("diagrams.aws.compute", {"ECS", "Fargate"}),
      Imp("diagrams.aws.network", {"ELB"}),
      Imp("diagrams.aws.security", {"IAM", "Cognito", "SecretsManager"}),
      Imp("diagrams.aws.storage", {"S3"}),
      Imp("diagrams.aws.management", {"Cloudwatch"}),
      Imp("diagrams.onprem.database", {"PostgreSQL"}),
      Imp("diagrams.onprem.inmemory", {"Redis"}),
      Imp("diagrams.onprem.client", {"Users"})>>

\* lines 138-146
ImportsFuture ==
    <<Imp("diagrams", {"Diagram", "Cluster", "Edge"}),
      Imp("diagrams.aws.compute", {"ECS", "Fargate"}),
      Imp("diagrams.aws.network", {"ELB", "CloudFront"}),
      Imp("diagrams.aws.security", {"WAF", "Shield"}),
      Imp("diagrams.aws.management", {"Cloudwatch"}),
      Imp("diagrams.aws.storage", {"S3"}),
      Imp("diagrams.onprem.database", {"PostgreSQL"}),
      Imp("diagrams.onprem.inmemory", {"Redis"}),
      Imp("diagrams.onprem.client", {"Users"})>>

\* lines 214-218
ImportsNeon ==
    <<Imp("diagrams", {"Diagram", "Cluster", "Edge"}),
      Imp("diagrams.onprem.database", {"PostgreSQL"}),
      Imp("diagrams.aws.compute", {"ECS", "Fargate"}),
      Imp("diagrams.onprem.client", {"Client"}),
      Imp("diagrams.generic.blank", {"Blank"})>>

\* lines 28-63
SceneHobby ==
    <<NodeStmt("users", "Users", ""),
      NodeStmt("igw", "InternetGateway", ""),
      NodeStmt("public_subnet", "NATGateway", "VPC"),
      NodeStmt("private_subnet", "EC2", "VPC"),
      NodeStmt("alb", "ELB", "VPC"),
      NodeStmt("ec2_asg", "EC2", "VPC"),
      NodeStmt("rds", "RDS", "VPC"),
      NodeStmt("redis", "ElastiCache", "VPC"),
      NodeStmt("param_store", "ParameterStore", "VPC"),
      NodeStmt("cognito", "Cognito", ""),
      EdgeStmt("users", "igw"),
      EdgeStmt("igw", "public_subnet"),
      EdgeStmt("public_subnet", "alb"),
      EdgeStmt("alb", "private_subnet"),
      EdgeStmt("private_subnet", "ec2_asg"),
      EdgeStmt("ec2_asg", "rds"),
      EdgeStmt("ec2_asg", "redis"),
      EdgeStmt("ec2_asg", "param_store"),
      EdgeStmt("ec2_asg", "cognito")>>

\* lines 86-127
SceneConsolidated ==
    <<NodeStmt("users", "Users", ""),
      NodeStmt("neon", "PostgreSQL", "External Services (Free Tier)"),
      NodeStmt("upstash", "Redis", "External Services (Free Tier)"),
      NodeStmt("alb", "ELB", "AWS Infrastructure (Minimal Cost)"),
      NodeStmt("ecs_service", "ECS", "ECS Fargate Cluster"),
      NodeStmt("fargate_tasks", "Fargate", "ECS Fargate Cluster"),
      NodeStmt("secrets_mgr", "SecretsManager", "AWS Infrastructure (Minimal Cost)"),
      NodeStmt("cognito", "Cognito", ""),
      NodeStmt("s3", "S3", ""),
      NodeStmt("cloudwatch", "Cloudwatch", ""),
      NodeStmt("iam", "IAM", ""),
      EdgeStmt("users", "alb"),
      EdgeStmt("alb", "ecs_service"),
      EdgeStmt("ecs_service", "fargate_tasks"),
      EdgeStmt("fargate_tasks", "neon"),
      EdgeStmt("fargate_tasks", "upstash"),
      EdgeStmt("fargate_tasks", "secrets_mgr"),
      EdgeStmt("fargate_tasks", "cognito"),
      EdgeStmt("fargate_tasks", "s3"),
      EdgeStmt("fargate_tasks", "iam"),
      EdgeStmt("fargate_tasks", "cloudwatch")>>

\* lines 150-203
SceneFuture ==
    <<NodeStmt("users", "Users", ""),
      NodeStmt("cloudfront", "CloudFront", ""),
      NodeStmt("waf", "WAF", ""),
      NodeStmt("shield", "Shield", ""),
      NodeStmt("alb", "ELB", ""),
      NodeStmt("api_tasks", "Fargate", "API Service"),
      NodeStmt("ui_tasks", "Fargate", "UI Service"),
      NodeStmt("neon_primary", "PostgreSQL", "External Database Services"),
      NodeStmt("neon_replicas", "PostgreSQL", "External Database Services"),
      NodeStmt("upstash_redis", "Redis", "External Database Services"),
      NodeStmt("s3", "S3", ""),
      NodeStmt("cloudwatch", "Cloudwatch", ""),
      EdgeStmt("users", "cloudfront"),
      EdgeStmt("cloudfront", "waf"),
      EdgeStmt("waf", "shield"),
      EdgeStmt("shield", "alb"),
      EdgeStmt("alb", "api_tasks"),
      EdgeStmt("alb", "ui_tasks"),
      EdgeStmt("api_tasks", "neon_primary"),
      EdgeStmt("api_tasks", "neon_replicas"),
      EdgeStmt("api_tasks", "upstash_redis"),
      EdgeStmt("ui_tasks", "s3"),
      EdgeStmt("api_tasks", "cloudwatch"),
      EdgeStmt("ui_tasks", "cloudwatch"),
      OpenEdgeStmt("api_tasks"),
      OpenEdgeStmt("ui_tasks"),
      OpenEdgeStmt("neon_replicas")>>

\* lines 222-267
SceneNeon ==
    <<NodeStmt("prod_db", "PostgreSQL", ""),
      NodeStmt("staging_db", "PostgreSQL", ""),
      NodeStmt("feature_db", "PostgreSQL", ""),
      NodeStmt("dev_client", "Client", ""),
      NodeStmt("blank1", "Blank", "Deployment Pipeline"),
      NodeStmt("blank2", "Blank", "Deployment Pipeline"),
      NodeStmt("blank3", "Blank", "Deployment Pipeline"),
      NodeStmt("feature_ecs", "Fargate", "ECS Services"),
      NodeStmt("staging_ecs", "Fargate", "ECS Services"),
      NodeStmt("prod_ecs", "Fargate", "ECS Services"),
      EdgeStmt("prod_db", "staging_db"),
      EdgeStmt("staging_db", "feature_db"),
      EdgeStmt("staging_db", "prod_db"),
      EdgeStmt("feature_db", "staging_db"),
      EdgeStmt("dev_client", "feature_db"),
      EdgeStmt("dev_client", "staging_db"),
      EdgeStmt("feature_ecs", "feature_db"),
      EdgeStmt("staging_ecs", "staging_db"),
      EdgeStmt("prod_ecs", "prod_db"),
      EdgeStmt("feature_db", "blank1"),
      EdgeStmt("blank1", "staging_db"),
      EdgeStmt("blank1", "blank2"),
      EdgeStmt("blank2", "prod_db"),
      EdgeStmt("blank2", "blank3")>>

Imports(b) ==
    CASE b = 1 -> ImportsHobby
      [] b = 2 -> ImportsConsolidated
      [] b = 3 -> ImportsFuture
      [] b = 4 -> ImportsNeon

Scene(b) ==
    CASE b = 1 -> SceneHobby
      [] b = 2 -> SceneConsolidated
      [] b = 3 -> SceneFuture
      [] b = 4 -> SceneNeon

\* The names a builder's import statements bind.
Imported(b) == UNION {Imports(b)[i].names : i \in 1 .. Len(Imports(b))}

\* A module can be imported when neither it nor the diagrams package is missing.
ModuleAvailable(m, miss) == m \notin miss /\ "diagrams" \notin miss

\* The first import statement of builder b that fails, or 0.
FirstFailingImport(b, miss) ==
    IF \A i \in 1 .. Len(Imports(b)) : ModuleAvailable(Imports(b)[i].module, miss)
    THEN 0
    ELSE CHOOSE i \in 1 .. Len(Imports(b)) :
            /\ ~ModuleAvailable(Imports(b)[i].module, miss)
            /\ \A j \in 1 .. i - 1 : ModuleAvailable(Imports(b)[j].module, miss)

----------------------------------------------------------------------------
\* State

VARIABLES
    dirs,       \* the directories that exist (paths from the invocation directory)
    files,      \* the regular files that exist
    noaccess,   \* directories the process may not enter
    missing,    \* the modules that cannot be imported in this run
    run,        \* which run of the script this is
    cwd,        \* the process's working directory
    pc,         \* where main is
    raisedAt,   \* the step whose exception left main, when pc = "raised"
    chdirs,     \* how often this run changed the working directory
    created,    \* the directories this run's mkdir created
    files0,     \* the regular files that existed when this run started
    dirs0,      \* the directories that existed when this run started
    written,    \* the files written during this run
    calls,      \* the builders called so far in this run, in order
    results,    \* main's results list
    summary,    \* what main printed after the builders
    retv,       \* main's return value, once pc is "returned" or "exited"
    exitCode,   \* <<code>> once the process has exited
    cur,        \* the builder that is running (0: none)
    bpc,        \* where that builder is
    stmt,       \* the next scene statement
    declared,   \* the node variables bound so far in this scene
    edges,      \* the edges made so far in this scene
    exc,        \* the text of the exception being handled
    excStage,   \* the stage that raised it
    bprinted,   \* the lines the running builder has printed
    bwritten,   \* the files the running builder's invocation has written
    bret,       \* the builder's return value, once bpc is "return"
    first       \* the outcome of the first run, once it has ended

fsVars == <<dirs, files, noaccess>>

procVars == <<missing, run, cwd, pc, raisedAt, chdirs, created, files0, dirs0, written>>

mainVars == <<calls, results, summary, retv, exitCode>>

builderVars == <<cur, bpc, stmt, declared, edges, exc, excStage, bprinted, bwritten, bret>>

vars == <<fsVars, procVars, mainVars, builderVars, first>>

\* A file some earlier tool left in the output directory.
OldPng == [dir |-> DiagramsDir, stem |-> "old", ext |-> "png"]

\* A regular file named docs in the invocation directory.
DocsFile == [dir |-> <<>>, stem |-> "docs", ext |-> ""]

\* The file systems the script may be started in.
InitialFileSystems ==
    { [dirs |-> {<<>>}, files |-> {}, noaccess |-> {}],
      [dirs |-> {<<>>, <<"docs">>}, files |-> {}, noaccess |-> {}],
      [dirs |-> {<<>>, <<"docs">>, DiagramsDir}, files |-> {OldPng}, noaccess |-> {}],
      [dirs |-> {<<>>, <<"docs">>, DiagramsDir}, files |-> {}, noaccess |-> {DiagramsDir}],
      [dirs |-> {<<>>}, files |-> {DocsFile}, noaccess |-> {}] }

\* The sets of modules that may be missing from the interpreter's path.
MissingChoices == { {}, {"diagrams"}, {"diagrams.generic.blank"} }

NoSummary ==
    [printed |-> FALSE, lines |-> <<>>, successful |-> 0, total |-> 0,
     dir |-> <<>>, listed |-> {}]

NoFirst == [ended |-> FALSE, ok |-> FALSE, files |-> {}]

Init ==
    /\ \E f \in InitialFileSystems :
          /\ dirs = f.dirs
          /\ files = f.files
          /\ noaccess = f.noaccess
          /\ files0 = f.files
          /\ dirs0 = f.dirs
    /\ missing \in MissingChoices
    /\ run = 1
    /\ cwd = <<>>
    /\ pc = "start"
    /\ raisedAt = None
    /\ chdirs = 0
    /\ created = {}
    /\ written = {}
    /\ calls = <<>>
    /\ results = <<>>
    /\ summary = NoSummary
    /\ retv = FALSE
    /\ exitCode = <<>>
    /\ cur = 0
    /\ bpc = "idle"
    /\ stmt = 0
    /\ declared = {}
    /\ edges = <<>>
    /\ exc = None
    /\ excStage = None
    /\ bprinted = <<>>
    /\ bwritten = {}
    /\ bret = FALSE
    /\ first = NoFirst

----------------------------------------------------------------------------
\* The builders (lines 15-273)

\* The stages of a builder the try block does not cover, were the imports
\* placed before the try statement.
TryCoversBodyOnly(stage) == stage \in {"scene", "render"}

\* The try block spans the imports, the scene and its rendering (lines
\* 17-66), and `except Exception` catches whatever they raise (line 67).
TryCovers(stage) == stage \in {"import", "scene", "render"}

\* The characters of a title as one string.
RECURSIVE TitleText(_)
TitleText(cs) == IF cs = <<>> THEN "" ELSE TitleText(Front(cs)) \o Last(cs)

SuccessLine(b) == "Generated: " \o TitleText(Title(b))

FailureLine(b, text) == "Failed to generate " \o FailureLabel(b) \o ": " \o text

\* The from ... import statements: the first module that cannot be imported
\* raises ImportError.
Import ==
    /\ pc = "builder" /\ bpc = "import"
    /\ LET k == FirstFailingImport(cur, missing) IN
       IF k = 0
       THEN /\ bpc' = "scene"
            /\ stmt' = 1
            /\ UNCHANGED <<exc, excStage, pc, raisedAt>>
       ELSE /\ exc' = "No module named " \o Imports(cur)[k].module
            /\ excStage' = "import"
            /\ stmt' = 0
            /\ IF TryCovers("import")
               THEN bpc' = "except" /\ UNCHANGED <<pc, raisedAt>>
               ELSE bpc' = "idle" /\ pc' = "raised" /\ raisedAt' = "builder"
    /\ UNCHANGED <<fsVars, missing, run, cwd, chdirs, created, files0, dirs0, written>>
    /\ UNCHANGED <<mainVars, cur, declared, edges, bprinted, bwritten, bret, first>>

\* Whether a scene statement refers only to names that are bound.
NamesBound(b, s, decl) ==
    IF s.op = "node" THEN s.icon \in Imported(b)
    ELSE /\ s.dst \in decl
         /\ s.src # None => s.src \in decl

\* One statement of the with block: a node is bound to its variable, an edge
\* expression makes an Edge between its operands. A name that is not bound
\* raises NameError; the library may raise on any statement.
Statement ==
    /\ pc = "builder" /\ bpc = "scene" /\ stmt <= Len(Scene(cur))
    /\ LET s == Scene(cur)[stmt] IN
       \/ /\ NamesBound(cur, s, declared)
          /\ declared' = IF s.op = "node" THEN declared \cup {s.var} ELSE declared
          /\ edges' = IF s.op = "edge"
                      THEN Append(edges, [src |-> s.src, dst |-> s.dst])
                      ELSE edges
          /\ stmt' = stmt + 1
          /\ UNCHANGED <<bpc, exc, excStage>>
       \/ /\ exc' = IF NamesBound(cur, s, declared)
                    THEN "scene error" ELSE "name is not defined"
          /\ excStage' = "scene"
          /\ bpc' = "unwind"
          /\ stmt' = 0
          /\ UNCHANGED <<declared, edges>>
    /\ UNCHANGED <<fsVars, procVars, mainVars, cur, bprinted, bwritten, bret, first>>

\* The with block ends normally: the diagram is rendered into the working
\* directory, or the renderer raises.
ScopeExit ==
    /\ pc = "builder" /\ bpc = "scene" /\ stmt > Len(Scene(cur))
    /\ \E rendered \in BOOLEAN, f \in {OutFile(cur, cwd)} :
          IF rendered
          THEN /\ files' = files \cup {f}
               /\ written' = written \cup {f}
               /\ bwritten' = bwritten \cup {f}
               /\ bpc' = "report"
               /\ UNCHANGED <<exc, excStage, pc, raisedAt>>
          ELSE /\ exc' = "render failed"
               /\ excStage' = "render"
               /\ UNCHANGED <<files, written, bwritten>>
               /\ IF TryCovers("render")
                  THEN bpc' = "except" /\ UNCHANGED <<pc, raisedAt>>
                  ELSE bpc' = "idle" /\ pc' = "raised" /\ raisedAt' = "builder"
    /\ stmt' = 0
    /\ declared' = {}
    /\ edges' = <<>>
    /\ UNCHANGED <<dirs, noaccess, missing, run, cwd, chdirs, created, files0, dirs0>>
    /\ UNCHANGED <<mainVars, cur, bprinted, bret, first>>

\* The with block is left by an exception: the diagram's exit handler runs
\* before the exception reaches the except clause, and what it has drawn so
\* far may be rendered.
Unwind ==
    /\ pc = "builder" /\ bpc = "unwind"
    /\ \E rendered \in BOOLEAN, f \in {OutFile(cur, cwd)} :
          IF rendered
          THEN /\ files' = files \cup {f}
               /\ written' = written \cup {f}
               /\ bwritten' = bwritten \cup {f}
          ELSE UNCHANGED <<files, written, bwritten>>
    /\ IF TryCovers("scene")
       THEN bpc' = "except" /\ UNCHANGED <<pc, raisedAt>>
       ELSE bpc' = "idle" /\ pc' = "raised" /\ raisedAt' = "builder"
    /\ declared' = {}
    /\ edges' = <<>>
    /\ UNCHANGED <<dirs, noaccess, missing, run, cwd, chdirs, created, files0, dirs0>>
    /\ UNCHANGED <<mainVars, cur, stmt, exc, excStage, bprinted, bret, first>>

\* print("Generated: ..."); return True
Report ==
    /\ pc = "builder" /\ bpc = "report"
    /\ bprinted' = Append(bprinted, SuccessLine(cur))
    /\ bret' = TRUE
    /\ bpc' = "return"
    /\ UNCHANGED <<fsVars, procVars, mainVars, first>>
    /\ UNCHANGED <<cur, stmt, declared, edges, exc, excStage, bwritten>>

\* except Exception as e: print(f"Failed to generate ...: {e}"); return False
Except ==
    /\ pc = "builder" /\ bpc = "except"
    /\ bprinted' = Append(bprinted, FailureLine(cur, exc))
    /\ bret' = FALSE
    /\ bpc' = "return"
    /\ UNCHANGED <<fsVars, procVars, mainVars, first>>
    /\ UNCHANGED <<cur, stmt, declared, edges, exc, excStage, bwritten>>

----------------------------------------------------------------------------
\* main (lines 275-312) and the script's entry point (lines 314-316)

\* print("Starting diagram generation..."); diagrams_dir = Path("docs/diagrams")
Start ==
    /\ pc = "start"
    /\ pc' = "mkdir"
    /\ UNCHANGED <<fsVars, missing, run, cwd, raisedAt, chdirs, created, files0, dirs0, written>>
    /\ UNCHANGED <<mainVars, builderVars, first>>

\* diagrams_dir.mkdir(parents=True, exist_ok=True); its OSError is not caught.
Mkdir ==
    /\ pc = "mkdir"
    /\ LET r == PathMkdir(dirs, files, Absolute(cwd, DiagramsDir),
                          MkdirParents, MkdirExistOk) IN
       IF r.ok
       THEN /\ dirs' = r.dirs
            /\ created' = r.dirs \ dirs
            /\ pc' = "chdir"
            /\ UNCHANGED raisedAt
       ELSE /\ pc' = "raised"
            /\ raisedAt' = "mkdir"
            /\ UNCHANGED <<dirs, created>>
    /\ UNCHANGED <<files, noaccess, missing, run, cwd, chdirs, files0, dirs0, written>>
    /\ UNCHANGED <<mainVars, builderVars, first>>

\* os.chdir(diagrams_dir); its OSError is not caught.
Chdir ==
    /\ pc = "chdir"
    /\ LET t == ChdirTarget(cwd) IN
       IF t \in dirs /\ t \notin noaccess
       THEN /\ cwd' = t
            /\ chdirs' = chdirs + 1
            /\ pc' = "call"
            /\ UNCHANGED raisedAt
       ELSE /\ pc' = "raised"
            /\ raisedAt' = "chdir"
            /\ UNCHANGED <<cwd, chdirs>>
    /\ UNCHANGED <<fsVars, missing, run, created, files0, dirs0, written>>
    /\ UNCHANGED <<mainVars, builderVars, first>>

\* The next results.append((name, generate_...())): the call is entered.
Call ==
    /\ pc = "call"
    /\ Len(results) < Len(BuilderOrder)
    /\ cur' = BuilderOrder[Len(results) + 1]
    /\ calls' = Append(calls, BuilderOrder[Len(results) + 1])
    /\ pc' = "builder"
    /\ bpc' = "import"
    /\ stmt' = 0
    /\ declared' = {}
    /\ edges' = <<>>
    /\ exc' = None
    /\ excStage' = None
    /\ bprinted' = <<>>
    /\ bwritten' = {}
    /\ bret' = FALSE
    /\ UNCHANGED <<fsVars, missing, run, cwd, raisedAt, chdirs, created, files0, dirs0, written>>
    /\ UNCHANGED <<results, summary, retv, exitCode, first>>

\* Where main goes on once n builders have returned, the last with result ok,
\* were main to stop at the first failure.
AfterBuilderStopOnFailure(n, ok) ==
    IF n = Len(BuilderOrder) \/ ~ok THEN "summary" ELSE "call"

\* Where main goes on once n builders have returned: the four appends follow
\* one another unconditionally (lines 288-291).
AfterBuilder(n, ok) == IF n = Len(BuilderOrder) THEN "summary" ELSE "call"

\* The builder returns and its (name, success) pair is appended.
Return ==
    /\ pc = "builder" /\ bpc = "return"
    /\ results' = Append(results, <<ResultName(Len(results) + 1), bret>>)
    /\ pc' = AfterBuilder(Len(results) + 1, bret)
    /\ bpc' = "idle"
    /\ UNCHANGED <<fsVars, missing, run, cwd, raisedAt, chdirs, created, files0, dirs0, written>>
    /\ UNCHANGED <<calls, summary, retv, exitCode, first>>
    /\ UNCHANGED <<cur, stmt, declared, edges, exc, excStage, bprinted, bwritten, bret>>

\* The number of successful entries of a results list (lines 295-300).
RECURSIVE CountSuccess(_)
CountSuccess(rs) ==
    IF rs = <<>> THEN 0
    ELSE (IF rs[Len(rs)][2] THEN 1 ELSE 0) + CountSuccess(Front(rs))

\* The status line printed for each result (lines 296-298).
StatusLines(rs) ==
    [i \in 1 .. Len(rs) |-> <<rs[i][1], IF rs[i][2] THEN "SUCCESS" ELSE "FAILED">>]

\* A return value that is true as soon as one builder succeeded.
MainReturnAny(successful, total) == successful > 0

\* return successful == len(results) (line 312)
MainReturn(successful, total) == successful = total

\* The summary (lines 293-310): a status line per result, the count, the
\* absolute form of the relative diagrams_dir, taken in the working directory
\* of that moment, and the PNG files the relative diagrams_dir holds.
Summary ==
    /\ pc = "summary"
    /\ summary' = [printed |-> TRUE,
                   lines |-> StatusLines(results),
                   successful |-> CountSuccess(results),
                   total |-> Len(results),
                   dir |-> Absolute(cwd, DiagramsDir),
                   listed |-> GlobPng(files, cwd)]
    /\ retv' = MainReturn(CountSuccess(results), Len(results))
    /\ pc' = "returned"
    /\ UNCHANGED <<fsVars, missing, run, cwd, raisedAt, chdirs, created, files0, dirs0, written>>
    /\ UNCHANGED <<calls, results, exitCode, builderVars, first>>

\* What a fully successful first run left behind, recorded when the process
\* ends (of any other first run only that it ended).
Outcome(ok) ==
    IF run = 1
    THEN [ended |-> TRUE, ok |-> ok, files |-> IF ok THEN files ELSE {}]
    ELSE first

\* success = main(); sys.exit(0 if success else 1)
Exit ==
    /\ pc = "returned"
    /\ exitCode' = <<IF retv THEN 0 ELSE 1>>
    /\ pc' = "exited"
    /\ first' = Outcome(retv)
    /\ UNCHANGED <<fsVars, missing, run, cwd, raisedAt, chdirs, created, files0, dirs0, written>>
    /\ UNCHANGED <<calls, results, summary, retv, builderVars>>

\* An exception that left main ends the process with exit status 1.
Abort ==
    /\ pc = "raised"
    /\ exitCode' = <<1>>
    /\ pc' = "aborted"
    /\ first' = Outcome(FALSE)
    /\ UNCHANGED <<fsVars, missing, run, cwd, raisedAt, chdirs, created, files0, dirs0, written>>
    /\ UNCHANGED <<calls, results, summary, retv, builderVars>>

\* The script is started again from the same invocation directory, in the
\* file system the previous run left.
Rerun ==
    /\ pc \in {"exited", "aborted"}
    /\ run < MaxRuns
    /\ run' = run + 1
    /\ missing' \in MissingChoices
    /\ cwd' = <<>>
    /\ pc' = "start"
    /\ raisedAt' = None
    /\ chdirs' = 0
    /\ created' = {}
    /\ files0' = files
    /\ dirs0' = dirs
    /\ written' = {}
    /\ calls' = <<>>
    /\ results' = <<>>
    /\ summary' = NoSummary
    /\ retv' = FALSE
    /\ exitCode' = <<>>
    /\ cur' = 0
    /\ bpc' = "idle"
    /\ stmt' = 0
    /\ declared' = {}
    /\ edges' = <<>>
    /\ exc' = None
    /\ excStage' = None
    /\ bprinted' = <<>>
    /\ bwritten' = {}
    /\ bret' = FALSE
    /\ UNCHANGED <<fsVars, first>>

Next ==
    \/ Start
    \/ Mkdir
    \/ Chdir
    \/ Call
    \/ Import
    \/ Statement
    \/ ScopeExit
    \/ Unwind
    \/ Report
    \/ Except
    \/ Return
    \/ Summary
    \/ Exit
    \/ Abort
    \/ Rerun

Spec == Init /\ [][Next]_vars

----------------------------------------------------------------------------
\* Properties

\* The PNG files directly inside directory d.
PngIn(fl, d) == {f \in fl : f.dir = d /\ f.ext = "png"}

AllReturned == Len(results) = Len(BuilderOrder)

Successes == {i \in 1 .. Len(results) : results[i][2]}

\* A regular file stands where docs or docs/diagrams would have to be a
\* directory: the output directory cannot be created.
Blocked == IsFile(files0, <<"docs">>) \/ IsFile(files0, DiagramsDir)

Ended == pc \in {"exited", "aborted"}

MainFailed == pc \in {"raised", "aborted"}

MainReturned == pc \in {"returned", "exited"}

\* The file names the four titles are expected to give.
ExpectedName(b) ==
    CASE b = 1 -> "current_hobby_deployment_architecture.png"
      [] b = 2 -> "consolidated_ecs_+_external_services_architecture.png"
      [] b = 3 -> "future_scaling_architecture.png"
      [] b = 4 -> "corrected_neon_database_branching_strategy.png"

\* The file names the four builders write.
OutFileNames == {FileName(OutFile(b, <<>>)) : b \in Builders}

ExpectedFiles(d) == {f \in files : f.dir = d /\ \E b \in Builders : FileName(f) = ExpectedName(b)}

\* C1: whatever a builder's imports, scene or rendering raise is caught by the
\* builder, which prints exactly one failure line holding the exception's text
\* and returns False; no exception leaves a builder; a builder one of whose
\* modules is missing returns False, and with the diagrams package missing all
\* four results are False.
C1_BuildersContainFailures ==
    /\ raisedAt # "builder"
    /\ (pc = "builder" /\ bpc = "return" /\ exc # None) =>
          /\ bret = FALSE
          /\ bprinted = <<"Failed to generate " \o FailureLabel(cur) \o ": " \o exc>>
    /\ (pc = "builder" /\ bpc = "return" /\ FirstFailingImport(cur, missing) # 0) =>
          /\ bret = FALSE
          /\ excStage = "import"
    /\ "diagrams" \in missing => Successes = {}

C1_Witness ==
    /\ pc = "summary"
    /\ "diagrams" \in missing
    /\ AllReturned
    /\ Successes = {}
    /\ excStage = "import"
    /\ Len(bprinted) = 1

\* C2: main returns the conjunction of the four builder results, and the exit
\* code is 0 exactly when that value is True and 1 otherwise.
C2_ReturnIsConjunction ==
    /\ MainReturned =>
          /\ AllReturned
          /\ retv <=> (\A i \in 1 .. 4 : results[i][2])
    /\ pc = "exited" =>
          /\ exitCode \in {<<0>>, <<1>>}
          /\ exitCode = <<0>> <=> (\A i \in 1 .. 4 : results[i][2])

C2_Witness ==
    /\ pc = "exited"
    /\ results[1][2] /\ ~results[2][2] /\ results[3][2] /\ results[4][2]
    /\ retv = FALSE
    /\ exitCode = <<1>>

C4_OnePngPerBuilder ==
    /\ (pc = "builder" /\ bpc = "return" /\ exc = None) =>
          /\ bret
          /\ Cardinality(bwritten) = 1
          /\ \A f \in bwritten :
                f.dir = cwd /\ f.ext = "png" /\ FileName(f) = ExpectedName(cur)
    /\ (pc = "builder" /\ bpc = "return" /\ bret) => exc = None
    /\ (MainReturned /\ retv) =>
          /\ Cardinality(OutFileNames) = 4
          /\ Cardinality(written) = 4
          /\ \A f \in written : f.dir = cwd /\ f.ext = "png"

C4_Witness ==
    /\ pc = "returned"
    /\ retv
    /\ Cardinality(written) = 4
    /\ cur = 4
    /\ bwritten = {[dir |-> DiagramsDir, stem |-> "corrected_neon_database_branching_strategy", ext |-> "png"]}

\* C5: the directory main reports at the end, and whose PNG files it lists, is
\* the directory it created and made the working directory, into which the
\* builders wrote.
C5_ReportsOutputDirectory ==
    MainReturned =>
        /\ summary.dir = cwd
        /\ summary.listed = {FileName(f) : f \in PngIn(files, cwd)}

\* C6 as stated: a missing output directory is created with its parents and
\* main goes on; an existing one lets main go on without error, its entries
\* untouched before the builders run.
C6_MkdirThenProceed ==
    /\ (pc \notin {"start", "mkdir"} /\ DiagramsDir \notin dirs0 /\ ~Blocked) =>
          /\ created = {<<"docs">>, DiagramsDir} \ dirs0
          /\ {<<"docs">>, DiagramsDir} \subseteq dirs
          /\ ~MainFailed
    /\ (pc \notin {"start", "mkdir"} /\ DiagramsDir \in dirs0) =>
          /\ created = {}
          /\ ~MainFailed
    /\ (pc \in {"chdir", "call"} /\ calls = <<>>) =>
          /\ files = files0
          /\ dirs0 \subseteq dirs

\* C6, amended: a missing output directory is created with its parents and
\* main goes on to the builders; an existing one that the process may enter
\* lets main go on without error; in both cases nothing that existed is removed
\* or altered before the builders run.
C6_MkdirThenProceedIfEnterable ==
    /\ (pc \notin {"start", "mkdir"} /\ DiagramsDir \notin dirs0 /\ ~Blocked) =>
          /\ created = {<<"docs">>, DiagramsDir} \ dirs0
          /\ {<<"docs">>, DiagramsDir} \subseteq dirs
          /\ ~MainFailed
    /\ (pc \notin {"start", "mkdir"} /\ DiagramsDir \in dirs0) =>
          /\ created = {}
          /\ raisedAt # "mkdir"
          /\ DiagramsDir \notin noaccess => ~MainFailed
    /\ (pc \in {"chdir", "call"} /\ calls = <<>>) =>
          /\ files = files0
          /\ dirs0 \subseteq dirs

C6_Witness ==
    /\ pc = "builder"
    /\ dirs0 = {<<>>}
    /\ created = {<<"docs">>, DiagramsDir}
    /\ cwd = DiagramsDir

\* C7: a builder that returns False has written no file.
C7_FailedBuilderWritesNothing ==
    (pc = "builder" /\ bpc = "return" /\ ~bret) => bwritten = {}

\* The builders are called in the fixed order and never twice, each result is
\* appended under its name, and the summary comes after the fourth return.
CallsInOrder ==
    /\ Len(calls) <= 4
    /\ calls = SubSeq(<<1, 2, 3, 4>>, 1, Len(calls))
    /\ Len(results) <= Len(calls)
    /\ Len(calls) <= Len(results) + 1
    /\ \A i \in 1 .. Len(results) :
          results[i][1] = <<"Current Hobby Architecture", "Consolidated Architecture",
                            "Future Scaling Architecture", "Corrected Neon Branching">>[i]
    /\ (pc = "summary" \/ MainReturned) => (calls = <<1, 2, 3, 4>> /\ AllReturned)
    /\ summary.printed => (AllReturned /\ bpc = "idle" /\ summary.total = 4)

\* C8 as stated: in every run in which the output directory was created or
\* already existed, the four builders are each called once, in order.
C8_AllBuildersWheneverDirExists ==
    /\ CallsInOrder
    /\ (Ended /\ DiagramsDir \in dirs) => calls = <<1, 2, 3, 4>>

\* C8, amended: in every run in which the output directory was created or
\* already existed and was made the working directory, the four builders are
\* each called exactly once, in the fixed order, whether or not earlier ones
\* failed; the results are four pairs in that order and the summary is printed
\* only after the fourth builder returned.
C8_AllBuildersOnceEntered ==
    /\ CallsInOrder
    /\ (Ended /\ chdirs >= 1) => calls = <<1, 2, 3, 4>>

C8_Witness ==
    /\ pc = "exited"
    /\ calls = <<1, 2, 3, 4>>
    /\ ~results[1][2] /\ results[2][2] /\ ~results[3][2] /\ results[4][2]
    /\ summary.printed

\* C9: every edge made in a scene has a source and a target, both of them
\* nodes declared earlier in the same scene.
C9_EdgesHaveBothEndpoints ==
    \A i \in 1 .. Len(edges) :
        /\ edges[i].src # None /\ edges[i].src \in declared
        /\ edges[i].dst # None /\ edges[i].dst \in declared

\* What holds of every run: a raise happens before any builder is called or
\* anything is printed in summary, with the working directory unchanged; a run
\* that returns has changed the working directory exactly once.
RaiseLeavesNoTrace ==
    /\ MainFailed =>
          /\ calls = <<>>
          /\ ~summary.printed
          /\ cwd = <<>>
          /\ chdirs = 0
    /\ MainReturned => chdirs = 1
    /\ chdirs <= 1
    /\ (Blocked /\ pc \notin {"start", "mkdir"}) => MainFailed

\* C10 as stated: main raises only when the output directory cannot be created.
C10_OnlyMkdirIsFatal ==
    /\ RaiseLeavesNoTrace
    /\ MainFailed => Blocked

\* C10, amended: main raises only when the output directory cannot be created
\* or, though it exists, cannot be made the working directory.
C10_MkdirOrChdirIsFatal ==
    /\ RaiseLeavesNoTrace
    /\ MainFailed =>
          \/ Blocked /\ raisedAt = "mkdir"
          \/ DiagramsDir \in dirs /\ DiagramsDir \in noaccess /\ raisedAt = "chdir"

C10_Witness ==
    /\ pc = "aborted"
    /\ raisedAt = "chdir"
    /\ DiagramsDir \in dirs
    /\ calls = <<>>
    /\ exitCode = <<1>>

====
